---- MODULE Spec2Model ----
(***************************************************************************)
(* Model of src/Redirector.py: a WebSocket relay that routes an accepted   *)
(* connection by its request path to a backend port on localhost and       *)
(* copies messages in both directions with two coroutines joined by        *)
(* asyncio.gather.                                                         *)
(*                                                                         *)
(* The websockets library calls the handler makes (recv through            *)
(* `async for`, send, close, connect, and the server's wrapper around the  *)
(* handler) are modelled by their documented behaviour:                    *)
(*   - `async for m in ws` yields queued messages in order; when the queue *)
(*     is empty and the connection is closed it ends the loop on a normal  *)
(*     close (ConnectionClosedOK) and raises on an abnormal one;           *)
(*   - `ws.send` raises ConnectionClosed when the connection is not open;  *)
(*   - `asyncio.gather` without return_exceptions returns when both        *)
(*     coroutines finished, or raises as soon as one raised, leaving the   *)
(*     other one running;                                                  *)
(*   - the server closes the client connection when the handler returns    *)
(*     (code 1000) or raises (code 1011).                                  *)
(***************************************************************************)
EXTENDS Integers, Sequences, FiniteSets, TLC

\* ---------------------------------------------------------------- bounds
NumSessions == 2
MaxEvents == 2

Sessions == 1..NumSessions
ConnIds == 1..NumSessions
None == 0

\* ------------------------------------------------------- program constants
port_mapping == [p \in {"/hub", "/smp"} |-> IF p = "/hub" THEN 327 ELSE 330]

\* request paths a client may ask for: the two keys and strings near them
Paths == {"/hub", "/smp", "/HUB", ""}

MsgTypes == {"text", "binary"}
Data == {"a"}
\* a WebSocket message on the wire
Frames == [type : MsgTypes, data : Data]

VARIABLES
    pc,          \* position of the handler of each session
    path,        \* request path of the session
    port,        \* local `port` of relay
    cli,         \* state of the client connection (`websocket`)
    clientSent,  \* messages the client has sent on its connection
    nreadC,      \* how many of them the relay has taken from the queue
    toClient,    \* messages the relay has written to the client
    dials,       \* backend connection attempts of the session, in order
    target_ws,   \* backend connection handle of the session (None: absent)
    fwdTo,       \* position of forward_to_target
    heldTo,      \* `message` of forward_to_target
    fwdFrom,     \* position of forward_from_target
    heldFrom,    \* `message` of forward_from_target
    be,          \* state of each backend connection
    backendSent, \* messages the backend has sent on each connection
    nreadB,      \* how many of them the relay has taken from the queue
    toBackend,   \* messages the relay has written to each backend connection
    users,       \* sessions whose tasks have used each backend connection
    events,      \* number of things the peers have done so far
    proc,        \* position of the module-level startup code
    ssl_context, \* outcome of building the secure-transport context
    routes       \* the port_mapping dict object as it is at run time

sessVars == <<pc, path, port, cli, clientSent, nreadC, toClient, dials,
              target_ws, fwdTo, heldTo, fwdFrom, heldFrom>>
connVars == <<be, backendSent, nreadB, toBackend, users>>
vars == <<pc, path, port, cli, clientSent, nreadC, toClient, dials,
          target_ws, fwdTo, heldTo, fwdFrom, heldFrom,
          be, backendSent, nreadB, toBackend, users, events, proc, ssl_context, routes>>
procVars == <<proc, ssl_context, routes>>

\* ---------------------------------------------------------------- helpers
IsPrefix(a, b) == Len(a) <= Len(b) /\ a = SubSeq(b, 1, Len(a))

NoMsg == [py |-> "none", data |-> ""]

\* recv(): a text message arrives as str, a binary one as bytes
Recv(frame) ==
    [py |-> IF frame.type = "text" THEN "str" ELSE "bytes", data |-> frame.data]

SendAsText(m) == [type |-> "text", data |-> m.data]
\* send(): a str goes out as a text message, bytes as a binary one
Send(m) ==
    [type |-> IF m.py = "str" THEN "text" ELSE "binary", data |-> m.data]

\* the lower-case form of the request paths used here
Lower(p) ==
    CASE p = "/HUB" -> "/hub"
      [] p = "/Smp" -> "/smp"
      [] OTHER -> p

LookupIgnoreCase(p) ==
    IF Lower(p) \in DOMAIN routes THEN routes[Lower(p)] ELSE None

LookupDefault(p) ==
    IF p \in DOMAIN routes THEN routes[p] ELSE routes["/hub"]
\* port_mapping.get(path, None): the value under the key equal to path
Lookup(p) == IF p \in DOMAIN routes THEN routes[p] ELSE None

TableAfterSetdefault(t, p) ==
    IF p \in DOMAIN t THEN t
    ELSE [q \in DOMAIN t \cup {p} |-> IF q = p THEN None ELSE t[q]]
\* port_mapping.get leaves the dict as it is
TableAfterLookup(t, p) == t

Main_port == 2083

target_url_main(p) == [scheme |-> "ws", host |-> "localhost", port |-> Main_port]
\* f"ws://localhost:{port}"
target_url(p) == [scheme |-> "ws", host |-> "localhost", port |-> p]

ReuseConn ==
    IF \E c \in ConnIds : be[c] = "open"
    THEN CHOOSE c \in ConnIds : be[c] = "open"
    ELSE CHOOSE c \in ConnIds : be[c] = "none"
\* the connection object websockets.connect returns is a new one
FreshConn == CHOOSE c \in ConnIds : be[c] = "none" /\ \A d \in ConnIds : be[d] = "none" => c <= d

ServerCloseOnReturnOnly(state, raised) ==
    IF state = "open" /\ ~raised THEN "closed_ok" ELSE state
\* what the server's wrapper does to the client connection when the handler
\* ends: close it, 1000 after a return and 1011 after an exception
ServerClose(state, raised) ==
    IF state = "open" THEN (IF raised THEN "closed_err" ELSE "closed_ok") ELSE state

\* ------------------------------------------------------------------- Init
Init ==
    /\ pc = [s \in Sessions |-> "unaccepted"]
    /\ path = [s \in Sessions |-> ""]
    /\ port = [s \in Sessions |-> None]
    /\ cli = [s \in Sessions |-> "none"]
    /\ clientSent = [s \in Sessions |-> <<>>]
    /\ nreadC = [s \in Sessions |-> 0]
    /\ toClient = [s \in Sessions |-> <<>>]
    /\ dials = [s \in Sessions |-> <<>>]
    /\ target_ws = [s \in Sessions |-> None]
    /\ fwdTo = [s \in Sessions |-> "none"]
    /\ heldTo = [s \in Sessions |-> NoMsg]
    /\ fwdFrom = [s \in Sessions |-> "none"]
    /\ heldFrom = [s \in Sessions |-> NoMsg]
    /\ be = [c \in ConnIds |-> "none"]
    /\ backendSent = [c \in ConnIds |-> <<>>]
    /\ nreadB = [c \in ConnIds |-> 0]
    /\ toBackend = [c \in ConnIds |-> <<>>]
    /\ users = [c \in ConnIds |-> {}]
    /\ events = 0
    /\ proc = "init"
    /\ ssl_context = "none"
    /\ routes = port_mapping

\* ---------------------------------------------------------------- startup
SSL_ENABLED == TRUE

\* ssl.SSLContext(...) and load_cert_chain(SSL_Cert, SSL_Key)
LoadCertChain(certs_ok) ==
    IF ~SSL_ENABLED THEN "none" ELSE IF certs_ok THEN "loaded" ELSE "failed"

StartFallingBackToPlain(certs_ok) ==
    /\ proc = "init"
    /\ ssl_context' = LoadCertChain(certs_ok)
    /\ proc' = "serving"
    /\ UNCHANGED <<sessVars, connVars, events, routes>>

\* module level: with SSL_ENABLED the context is built and load_cert_chain
\* reads the certificate and key; an exception there ends the script before
\* websockets.serve is reached
Start(certs_ok) ==
    /\ proc = "init"
    /\ ssl_context' = LoadCertChain(certs_ok)
    /\ proc' = IF ssl_context' = "failed" THEN "crashed" ELSE "serving"
    /\ UNCHANGED <<sessVars, connVars, events, routes>>

\* --------------------------------------------------------------- listener
AcceptSerial(s, p) ==
    /\ proc = "serving"
    /\ pc[s] = "unaccepted"
    /\ \A t \in Sessions : t < s => pc[t] = "returned"
    /\ pc' = [pc EXCEPT ![s] = "routing"]
    /\ path' = [path EXCEPT ![s] = p]
    /\ cli' = [cli EXCEPT ![s] = "open"]
    /\ UNCHANGED <<port, clientSent, nreadC, toClient, dials, target_ws,
                   fwdTo, heldTo, fwdFrom, heldFrom>>
    /\ UNCHANGED <<connVars, events>>
    /\ UNCHANGED procVars

\* websockets.serve(relay, ...): a connection is accepted and relay(websocket,
\* path) is started for it, whatever the earlier sessions are doing
Accept(s, p) ==
    /\ proc = "serving"
    /\ pc[s] = "unaccepted"
    /\ \A t \in Sessions : t < s => pc[t] # "unaccepted"
    /\ pc' = [pc EXCEPT ![s] = "routing"]
    /\ path' = [path EXCEPT ![s] = p]
    /\ cli' = [cli EXCEPT ![s] = "open"]
    /\ UNCHANGED <<port, clientSent, nreadC, toClient, dials, target_ws,
                   fwdTo, heldTo, fwdFrom, heldFrom>>
    /\ UNCHANGED <<connVars, events>>
    /\ UNCHANGED procVars

\* ------------------------------------------------------------------ relay
RouteStartsReader(s) ==
    /\ pc[s] = "routing"
    /\ LET p == Lookup(path[s]) IN
         /\ port' = [port EXCEPT ![s] = p]
         /\ IF p = None
              THEN /\ cli' = [cli EXCEPT ![s] = ServerClose(cli[s], FALSE)]
                   /\ pc' = [pc EXCEPT ![s] = "returned"]
                   /\ UNCHANGED fwdTo
              ELSE /\ pc' = [pc EXCEPT ![s] = "dialing"]
                   /\ fwdTo' = [fwdTo EXCEPT ![s] = "recv"]
                   /\ UNCHANGED cli
    /\ UNCHANGED <<path, clientSent, nreadC, toClient, dials, target_ws,
                   heldTo, fwdFrom, heldFrom>>
    /\ UNCHANGED <<connVars, events>>
    /\ routes' = TableAfterLookup(routes, path[s])
    /\ UNCHANGED <<proc, ssl_context>>

\* port lookup; an unmapped path closes the client connection and returns
Route(s) ==
    /\ pc[s] = "routing"
    /\ LET p == Lookup(path[s]) IN
         /\ port' = [port EXCEPT ![s] = p]
         /\ IF p = None
              THEN /\ cli' = [cli EXCEPT ![s] = ServerClose(cli[s], FALSE)]
                   /\ pc' = [pc EXCEPT ![s] = "returned"]
              ELSE /\ pc' = [pc EXCEPT ![s] = "dialing"]
                   /\ UNCHANGED cli
    /\ UNCHANGED <<path, clientSent, nreadC, toClient, dials, target_ws,
                   fwdTo, heldTo, fwdFrom, heldFrom>>
    /\ UNCHANGED <<connVars, events>>
    /\ routes' = TableAfterLookup(routes, path[s])
    /\ UNCHANGED <<proc, ssl_context>>

\* target_ws = await websockets.connect(target_url): on success a new
\* connection, and the two coroutines are handed to asyncio.gather; on
\* failure the exception leaves relay and the server closes the client
DialOutcome(s, ok, c, url) ==
    /\ pc[s] = "dialing"
    /\ dials' = [dials EXCEPT ![s] = Append(@, url)]
    /\ IF ok
         THEN /\ target_ws' = [target_ws EXCEPT ![s] = c]
              /\ be' = [be EXCEPT ![c] = "open"]
              /\ users' = [users EXCEPT ![c] = @ \cup {s}]
              /\ pc' = [pc EXCEPT ![s] = "relaying"]
              /\ fwdTo' = [fwdTo EXCEPT ![s] = "recv"]
              /\ fwdFrom' = [fwdFrom EXCEPT ![s] = "recv"]
              /\ UNCHANGED cli
         ELSE /\ pc' = [pc EXCEPT ![s] = "returned"]
              /\ cli' = [cli EXCEPT ![s] = ServerClose(cli[s], TRUE)]
              /\ UNCHANGED <<target_ws, be, users, fwdTo, fwdFrom>>
    /\ UNCHANGED <<path, port, clientSent, nreadC, toClient, heldTo, heldFrom,
                   backendSent, nreadB, toBackend, events>>
    /\ UNCHANGED procVars

Dial(s) ==
    \E ok \in BOOLEAN : DialOutcome(s, ok, FreshConn, target_url(port[s]))

ToRecvIgnoringClose(s) ==
    /\ fwdTo[s] = "recv"
    /\ nreadC[s] < Len(clientSent[s])
    /\ heldTo' = [heldTo EXCEPT ![s] = Recv(clientSent[s][nreadC[s] + 1])]
    /\ nreadC' = [nreadC EXCEPT ![s] = @ + 1]
    /\ fwdTo' = [fwdTo EXCEPT ![s] = "send"]
    /\ UNCHANGED <<pc, path, port, cli, clientSent, toClient, dials, target_ws,
                   fwdFrom, heldFrom>>
    /\ UNCHANGED <<connVars, events>>
    /\ UNCHANGED procVars

\* forward_to_target: `async for message in websocket`
ToRecv(s) ==
    /\ fwdTo[s] = "recv"
    /\ IF nreadC[s] < Len(clientSent[s])
         THEN /\ heldTo' = [heldTo EXCEPT ![s] = Recv(clientSent[s][nreadC[s] + 1])]
              /\ nreadC' = [nreadC EXCEPT ![s] = @ + 1]
              /\ fwdTo' = [fwdTo EXCEPT ![s] = "send"]
         ELSE /\ cli[s] # "open"
              /\ fwdTo' = [fwdTo EXCEPT ![s] =
                              IF cli[s] = "closed_ok" THEN "done" ELSE "failed"]
              /\ UNCHANGED <<heldTo, nreadC>>
    /\ UNCHANGED <<pc, path, port, cli, clientSent, toClient, dials, target_ws,
                   fwdFrom, heldFrom>>
    /\ UNCHANGED <<connVars, events>>
    /\ UNCHANGED procVars

\* forward_to_target: `await target_ws.send(message)`; `message` is not
\* used again before the loop rebinds it
ToSend(s) ==
    /\ fwdTo[s] = "send"
    /\ heldTo' = [heldTo EXCEPT ![s] = NoMsg]
    /\ LET c == target_ws[s] IN
         /\ users' = [users EXCEPT ![c] = @ \cup {s}]
         /\ IF be[c] = "open"
              THEN /\ toBackend' = [toBackend EXCEPT ![c] = Append(@, Send(heldTo[s]))]
                   /\ fwdTo' = [fwdTo EXCEPT ![s] = "recv"]
              ELSE /\ fwdTo' = [fwdTo EXCEPT ![s] = "failed"]
                   /\ UNCHANGED toBackend
    /\ UNCHANGED <<pc, path, port, cli, clientSent, nreadC, toClient, dials,
                   target_ws, fwdFrom, heldFrom>>
    /\ UNCHANGED <<be, backendSent, nreadB, events>>
    /\ UNCHANGED procVars

\* forward_from_target: `async for message in target_ws`
FromRecv(s) ==
    /\ fwdFrom[s] = "recv"
    /\ LET c == target_ws[s] IN
         /\ IF nreadB[c] < Len(backendSent[c])
              THEN /\ heldFrom' = [heldFrom EXCEPT ![s] = Recv(backendSent[c][nreadB[c] + 1])]
                   /\ nreadB' = [nreadB EXCEPT ![c] = @ + 1]
                   /\ fwdFrom' = [fwdFrom EXCEPT ![s] = "send"]
              ELSE /\ be[c] # "open"
                   /\ fwdFrom' = [fwdFrom EXCEPT ![s] =
                                     IF be[c] = "closed_ok" THEN "done" ELSE "failed"]
                   /\ UNCHANGED <<heldFrom, nreadB>>
         /\ users' = [users EXCEPT ![c] = @ \cup {s}]
    /\ UNCHANGED <<pc, path, port, cli, clientSent, nreadC, toClient, dials,
                   target_ws, fwdTo, heldTo>>
    /\ UNCHANGED <<be, backendSent, toBackend, events>>
    /\ UNCHANGED procVars

FromSendEcho(s) ==
    /\ fwdFrom[s] = "send"
    /\ heldFrom' = [heldFrom EXCEPT ![s] = NoMsg]
    /\ LET c == target_ws[s] IN
         IF be[c] = "open"
           THEN /\ toBackend' = [toBackend EXCEPT ![c] = Append(@, Send(heldFrom[s]))]
                /\ fwdFrom' = [fwdFrom EXCEPT ![s] = "recv"]
           ELSE /\ fwdFrom' = [fwdFrom EXCEPT ![s] = "failed"]
                /\ UNCHANGED toBackend
    /\ UNCHANGED <<pc, path, port, cli, clientSent, nreadC, toClient, dials,
                   target_ws, fwdTo, heldTo>>
    /\ UNCHANGED <<be, backendSent, nreadB, users, events>>
    /\ UNCHANGED procVars

\* forward_from_target: `await websocket.send(message)`; `message` is not
\* used again before the loop rebinds it
FromSend(s) ==
    /\ fwdFrom[s] = "send"
    /\ heldFrom' = [heldFrom EXCEPT ![s] = NoMsg]
    /\ IF cli[s] = "open"
         THEN /\ toClient' = [toClient EXCEPT ![s] = Append(@, Send(heldFrom[s]))]
              /\ fwdFrom' = [fwdFrom EXCEPT ![s] = "recv"]
         ELSE /\ fwdFrom' = [fwdFrom EXCEPT ![s] = "failed"]
              /\ UNCHANGED toClient
    /\ UNCHANGED <<pc, path, port, cli, clientSent, nreadC, dials, target_ws,
                   fwdTo, heldTo>>
    /\ UNCHANGED <<connVars, events>>
    /\ UNCHANGED procVars

GatherClosingBackend(s) ==
    /\ pc[s] = "relaying"
    /\ LET raised == fwdTo[s] = "failed" \/ fwdFrom[s] = "failed" IN
         /\ raised \/ (fwdTo[s] = "done" /\ fwdFrom[s] = "done")
         /\ cli' = [cli EXCEPT ![s] = ServerClose(cli[s], raised)]
    /\ be' = [be EXCEPT ![target_ws[s]] = IF @ = "open" THEN "closed_ok" ELSE @]
    /\ pc' = [pc EXCEPT ![s] = "returned"]
    /\ UNCHANGED <<path, port, clientSent, nreadC, toClient, dials, target_ws,
                   fwdTo, heldTo, fwdFrom, heldFrom>>
    /\ UNCHANGED <<backendSent, nreadB, toBackend, users, events>>
    /\ UNCHANGED procVars

\* await asyncio.gather(forward_to_target(), forward_from_target()): resumes
\* when both coroutines have finished, or as soon as one has raised; relay
\* then ends and the server closes the client connection
Gather(s) ==
    /\ pc[s] = "relaying"
    /\ LET raised == fwdTo[s] = "failed" \/ fwdFrom[s] = "failed" IN
         /\ raised \/ (fwdTo[s] = "done" /\ fwdFrom[s] = "done")
         /\ cli' = [cli EXCEPT ![s] = ServerClose(cli[s], raised)]
    /\ pc' = [pc EXCEPT ![s] = "returned"]
    /\ UNCHANGED <<path, port, clientSent, nreadC, toClient, dials, target_ws,
                   fwdTo, heldTo, fwdFrom, heldFrom>>
    /\ UNCHANGED <<connVars, events>>
    /\ UNCHANGED procVars

\* ------------------------------------------------------------------ peers
\* the client sends a message on its connection
ClientSend(s, f) ==
    /\ cli[s] = "open"
    /\ events < MaxEvents
    /\ events' = events + 1
    /\ clientSent' = [clientSent EXCEPT ![s] = Append(@, f)]
    /\ UNCHANGED <<pc, path, port, cli, nreadC, toClient, dials, target_ws,
                   fwdTo, heldTo, fwdFrom, heldFrom>>
    /\ UNCHANGED connVars
    /\ UNCHANGED procVars

\* the client connection closes: a close handshake (ok) or a lost transport
ClientClose(s, ok) ==
    /\ cli[s] = "open"
    /\ events < MaxEvents
    /\ events' = events + 1
    /\ cli' = [cli EXCEPT ![s] = IF ok THEN "closed_ok" ELSE "closed_err"]
    /\ UNCHANGED <<pc, path, port, clientSent, nreadC, toClient, dials,
                   target_ws, fwdTo, heldTo, fwdFrom, heldFrom>>
    /\ UNCHANGED connVars
    /\ UNCHANGED procVars

\* the backend sends a message on the connection of session s
BackendSend(s, f) ==
    /\ target_ws[s] # None
    /\ be[target_ws[s]] = "open"
    /\ events < MaxEvents
    /\ events' = events + 1
    /\ backendSent' = [backendSent EXCEPT ![target_ws[s]] = Append(@, f)]
    /\ UNCHANGED sessVars
    /\ UNCHANGED <<be, nreadB, toBackend, users>>
    /\ UNCHANGED procVars

\* the backend connection of session s closes
BackendClose(s, ok) ==
    /\ target_ws[s] # None
    /\ be[target_ws[s]] = "open"
    /\ events < MaxEvents
    /\ events' = events + 1
    /\ be' = [be EXCEPT ![target_ws[s]] = IF ok THEN "closed_ok" ELSE "closed_err"]
    /\ UNCHANGED sessVars
    /\ UNCHANGED <<backendSent, nreadB, toBackend, users>>
    /\ UNCHANGED procVars

\* ------------------------------------------------------------------- Next
\* a step of the relay itself for session s
RelayStep(s) ==
    \/ Route(s)
    \/ Dial(s)
    \/ ToRecv(s)
    \/ ToSend(s)
    \/ FromRecv(s)
    \/ FromSend(s)
    \/ Gather(s)

\* a step of the peers of session s
PeerStep(s) ==
    \/ \E f \in Frames : ClientSend(s, f)
    \/ \E ok \in BOOLEAN : ClientClose(s, ok)
    \/ \E f \in Frames : BackendSend(s, f)
    \/ \E ok \in BOOLEAN : BackendClose(s, ok)

Next ==
    \/ \E certs_ok \in BOOLEAN : Start(certs_ok)
    \/ \E s \in Sessions, p \in Paths : Accept(s, p)
    \/ \E s \in Sessions : Route(s)
    \/ \E s \in Sessions : Dial(s)
    \/ \E s \in Sessions : ToRecv(s)
    \/ \E s \in Sessions : ToSend(s)
    \/ \E s \in Sessions : FromRecv(s)
    \/ \E s \in Sessions : FromSend(s)
    \/ \E s \in Sessions : Gather(s)
    \/ \E s \in Sessions, f \in Frames : ClientSend(s, f)
    \/ \E s \in Sessions, ok \in BOOLEAN : ClientClose(s, ok)
    \/ \E s \in Sessions, f \in Frames : BackendSend(s, f)
    \/ \E s \in Sessions, ok \in BOOLEAN : BackendClose(s, ok)

Spec == Init /\ [][Next]_vars

\* the event loop runs every task that is ready; the peers owe nothing
FairSpec == Spec /\ \A s \in Sessions : WF_vars(RelayStep(s))

\* ------------------------------------------------------- shared notions
Mapped(s) == pc[s] # "unaccepted" /\ path[s] \in DOMAIN port_mapping
Unmapped(s) == pc[s] # "unaccepted" /\ path[s] \notin DOMAIN port_mapping
HasBackend(s) == target_ws[s] # None
Ended(task) == task \in {"done", "failed"}

BackendOpen(s) == HasBackend(s) /\ be[target_ws[s]] = "open"

\* the session is RELAYING: gather is pending and both connections are open
Relaying(s) == pc[s] = "relaying" /\ cli[s] = "open" /\ BackendOpen(s)

\* ---------------------------------------------------------------------- C1
\* C1: a session whose path is not a key of the route table never dials a
\* backend, never gets a backend connection nor a forwarding task, uses no
\* backend connection, and once its handler has run the client connection is
\* closed, whatever the client has sent.
C1_UnmappedClosesWithoutDial ==
    \A s \in Sessions : Unmapped(s) =>
        /\ dials[s] = <<>>
        /\ target_ws[s] = None
        /\ fwdTo[s] = "none" /\ fwdFrom[s] = "none"
        /\ \A c \in ConnIds : s \notin users[c]
        /\ pc[s] \in {"routing", "returned"}
        /\ (pc[s] = "returned" => cli[s] \notin {"none", "open"})

C1_Witness ==
    \E s \in Sessions :
        Unmapped(s) /\ pc[s] = "returned" /\ clientSent[s] # <<>>
          /\ \E t \in Sessions : HasBackend(t)

\* ---------------------------------------------------------------------- C2
\* C2: a session never dials twice, and a session with a mapped path whose
\* handler is past the dial has dialled exactly once, ws://localhost at the
\* port the table maps its path to, also after a failed dial or an I/O error.
C2_ExactlyOneDial ==
    \A s \in Sessions :
        /\ Len(dials[s]) <= 1
        /\ (Mapped(s) /\ pc[s] \in {"relaying", "returned"}) =>
              dials[s] = <<[scheme |-> "ws", host |-> "localhost",
                            port |-> port_mapping[path[s]]]>>

C2_Witness ==
    \E s \in Sessions :
        /\ Mapped(s) /\ pc[s] = "returned" /\ HasBackend(s)
        /\ fwdTo[s] = "failed"
        /\ Len(dials[s]) = 1 /\ dials[s][1].port = 330

\* ---------------------------------------------------------------------- C3
\* C3: in each direction what the relay has written is a prefix of what the
\* peer sent, same type and content, and while the session is RELAYING both
\* directions are running and every message taken from a queue is either
\* written or the one in hand: none is lost, changed or overtaken.
C3_OrderAndFidelity ==
    \A s \in Sessions : HasBackend(s) =>
        LET c == target_ws[s]
            inHandTo == IF fwdTo[s] = "send" THEN <<Send(heldTo[s])>> ELSE <<>>
            inHandFrom == IF fwdFrom[s] = "send" THEN <<Send(heldFrom[s])>> ELSE <<>>
        IN /\ IsPrefix(toBackend[c], clientSent[s])
           /\ IsPrefix(toClient[s], backendSent[c])
           /\ Relaying(s) =>
                /\ fwdTo[s] \in {"recv", "send"}
                /\ fwdFrom[s] \in {"recv", "send"}
                /\ toBackend[c] \o inHandTo = SubSeq(clientSent[s], 1, nreadC[s])
                /\ toClient[s] \o inHandFrom = SubSeq(backendSent[c], 1, nreadB[c])

C3_Witness ==
    \E s \in Sessions :
        /\ Relaying(s)
        /\ Len(toBackend[target_ws[s]]) = 2
        /\ toBackend[target_ws[s]][1].type = "binary"
        /\ toBackend[target_ws[s]][2].type = "text"
        /\ fwdTo[s] = "recv" /\ fwdFrom[s] = "recv"

\* ---------------------------------------------------------------------- C4
\* C4: once the backend connection of a session is closed while gather is
\* pending, the client connection is eventually closed.
C4_BackendCloseClosesClient ==
    \A s \in Sessions :
        (pc[s] = "relaying" /\ HasBackend(s) /\ ~BackendOpen(s))
            ~> (cli[s] # "open")

\* ---------------------------------------------------------------------- C5
\* C5: once the client connection of a session is closed while gather is
\* pending, the backend connection is eventually closed.
C5_ClientCloseClosesBackend ==
    \A s \in Sessions :
        (pc[s] = "relaying" /\ HasBackend(s) /\ cli[s] # "open")
            ~> ~BackendOpen(s)

\* ---------------------------------------------------------------------- C6
\* C6: after a failed dial the session has no backend connection and no
\* forwarding task, nothing was taken from the client or written to it, and
\* the client connection is closed.
DialFailed(s) == dials[s] # <<>> /\ target_ws[s] = None

C6_DialFailureClosesClient ==
    \A s \in Sessions : DialFailed(s) =>
        /\ pc[s] = "returned"
        /\ cli[s] \notin {"none", "open"}
        /\ nreadC[s] = 0 /\ toClient[s] = <<>>
        /\ fwdTo[s] = "none" /\ fwdFrom[s] = "none"
        /\ \A c \in ConnIds : s \notin users[c]

C6_Witness ==
    \E s \in Sessions :
        DialFailed(s) /\ cli[s] = "closed_err" /\ clientSent[s] # <<>>

\* ---------------------------------------------------------------------- C7
\* C7: after a forwarding coroutine has raised, eventually both connections
\* of the session are closed and both coroutines have ended.
C7_ErrorTearsDownSession ==
    \A s \in Sessions :
        (fwdTo[s] = "failed" \/ fwdFrom[s] = "failed")
            ~> /\ cli[s] # "open"
               /\ ~BackendOpen(s)
               /\ Ended(fwdTo[s]) /\ Ended(fwdFrom[s])

\* ---------------------------------------------------------------------- C8
\* everything that belongs to session s, its backend connection included
ConnState(c) ==
    IF c = None THEN <<>>
    ELSE <<be[c], backendSent[c], nreadB[c], toBackend[c], users[c]>>

SessState(s) ==
    <<pc[s], path[s], port[s], cli[s], clientSent[s], nreadC[s], toClient[s],
      dials[s], target_ws[s], fwdTo[s], heldTo[s], fwdFrom[s], heldFrom[s],
      ConnState(target_ws[s])>>

\* a step of session a: of its handler, its coroutines or its peers
StepOf(a) ==
    \/ \E p \in Paths : Accept(a, p)
    \/ RelayStep(a)
    \/ PeerStep(a)

\* C8: a step of one session (accept, routing, dial or dial failure,
\* forwarding, an error, a close by a peer or by the relay) leaves the
\* connections, coroutines and messages of every other session as they were.
C8_SessionsIsolated ==
    [][\A a \in Sessions : StepOf(a) =>
          \A b \in Sessions \ {a} : SessState(b)' = SessState(b)]_vars

C8_Witness ==
    \E a, b \in Sessions :
        /\ a # b
        /\ pc[a] = "returned" /\ HasBackend(a) /\ be[target_ws[a]] = "closed_err"
        /\ Relaying(b) /\ toClient[b] # <<>>

\* ---------------------------------------------------------------------- C9
\* C9: no two sessions hold the same backend connection, every backend
\* connection that exists is held by exactly one session, and only tasks of
\* that session have read from it or written to it.
C9_OneBackendPerSession ==
    /\ \A s, t \in Sessions :
          (s # t /\ HasBackend(s)) => target_ws[s] # target_ws[t]
    /\ \A c \in ConnIds :
          /\ be[c] # "none" => Cardinality({s \in Sessions : target_ws[s] = c}) = 1
          /\ users[c] \subseteq {s \in Sessions : target_ws[s] = c}

C9_Witness ==
    \E s, t \in Sessions :
        /\ s # t /\ HasBackend(s) /\ HasBackend(t)
        /\ port[s] = port[t]
        /\ toBackend[target_ws[s]] # <<>>
        /\ be[target_ws[t]] = "open"

\* --------------------------------------------------------------------- C10
BothClosed(s) == HasBackend(s) /\ cli[s] # "open" /\ ~BackendOpen(s)

\* CLOSED: the handler has returned and both coroutines have ended
SessClosed(s) == pc[s] = "returned" /\ Ended(fwdTo[s]) /\ Ended(fwdFrom[s])

\* what the session has read and written so far
Activity(s) ==
    <<nreadC[s], toClient[s], nreadB[target_ws[s]], toBackend[target_ws[s]]>>

\* C10: once both connections of a session are closed, the session reaches
\* CLOSED (handler returned, both coroutines ended), and from then on it reads
\* and writes nothing.
C10_ClosedAfterBothEndpoints ==
    /\ \A s \in Sessions : BothClosed(s) ~> (BothClosed(s) /\ SessClosed(s))
    /\ [][\A s \in Sessions : (BothClosed(s) /\ SessClosed(s)) =>
             (SessClosed(s)' /\ Activity(s)' = Activity(s))]_vars

C10_Witness ==
    \E s \in Sessions :
        /\ BothClosed(s) /\ SessClosed(s)
        /\ cli[s] = "closed_ok" /\ be[target_ws[s]] = "closed_ok"
        /\ fwdTo[s] = "done" /\ fwdFrom[s] = "done"

\* --------------------------------------------------------------------- C11
\* C11: whenever the handler of a session that dialled has returned, both of
\* its forwarding coroutines have ended.
C11_ReturnsAfterBothTasks ==
    \A s \in Sessions :
        (pc[s] = "returned" /\ HasBackend(s)) =>
            (Ended(fwdTo[s]) /\ Ended(fwdFrom[s]))

\* --------------------------------------------------------------------- C12
\* the next connection the listener would accept
NextToAccept(s) ==
    /\ proc = "serving"
    /\ pc[s] = "unaccepted"
    /\ \A t \in Sessions : t < s => pc[t] # "unaccepted"

\* session s has a step to take, judged from its own state only
Ready(s) ==
    \/ pc[s] \in {"routing", "dialing"}
    \/ fwdTo[s] = "send"
    \/ fwdFrom[s] = "send"
    \/ fwdTo[s] = "recv" /\ (nreadC[s] < Len(clientSent[s]) \/ cli[s] # "open")
    \/ /\ fwdFrom[s] = "recv"
       /\ (nreadB[target_ws[s]] < Len(backendSent[target_ws[s]]) \/ ~BackendOpen(s))
    \/ /\ pc[s] = "relaying"
       /\ \/ fwdTo[s] = "failed" \/ fwdFrom[s] = "failed"
          \/ fwdTo[s] = "done" /\ fwdFrom[s] = "done"

\* C12: the listener can accept the next connection whatever the earlier
\* sessions are doing, and whether a session can take its next step depends
\* on that session alone, never on another session being suspended.
C12_AcceptAndProgressIndependent ==
    \A s \in Sessions :
        /\ NextToAccept(s) => ENABLED (\E p \in Paths : Accept(s, p))
        /\ Ready(s) <=> ENABLED RelayStep(s)

C12_Witness ==
    \E a, b \in Sessions :
        /\ a < b
        /\ Relaying(a) /\ fwdTo[a] = "recv" /\ nreadC[a] = Len(clientSent[a])
        /\ fwdFrom[a] = "send"
        /\ pc[b] = "relaying"

\* --------------------------------------------------------------------- C13
\* request paths for the router alone: the keys, other-case variants, a
\* prefix, extensions, a key without its slash and the empty path
RouterPaths == {"/hub", "/smp", "/HUB", "/Smp", "/hu", "/hub/", "/hub/x", "hub", ""}

\* every session has been accepted, each with any of the paths, and none has
\* looked its path up yet
RouterInit ==
    /\ pc = [s \in Sessions |-> "routing"]
    /\ path \in [Sessions -> RouterPaths]
    /\ port = [s \in Sessions |-> None]
    /\ cli = [s \in Sessions |-> "open"]
    /\ clientSent = [s \in Sessions |-> <<>>]
    /\ nreadC = [s \in Sessions |-> 0]
    /\ toClient = [s \in Sessions |-> <<>>]
    /\ dials = [s \in Sessions |-> <<>>]
    /\ target_ws = [s \in Sessions |-> None]
    /\ fwdTo = [s \in Sessions |-> "none"]
    /\ heldTo = [s \in Sessions |-> NoMsg]
    /\ fwdFrom = [s \in Sessions |-> "none"]
    /\ heldFrom = [s \in Sessions |-> NoMsg]
    /\ be = [c \in ConnIds |-> "none"]
    /\ backendSent = [c \in ConnIds |-> <<>>]
    /\ nreadB = [c \in ConnIds |-> 0]
    /\ toBackend = [c \in ConnIds |-> <<>>]
    /\ users = [c \in ConnIds |-> {}]
    /\ events = 0
    /\ proc = "serving"
    /\ ssl_context = "loaded"
    /\ routes = port_mapping

RouterNext == \E s \in Sessions : Route(s)

RouterSpec == RouterInit /\ [][RouterNext]_vars

\* C13: once a session has looked its path up, its port is 327 exactly when
\* the path is "/hub", 330 exactly when it is "/smp", and there is no route
\* (and the handler has returned) for every other string.
C13_ExactMatchRouting ==
    \A s \in Sessions : pc[s] # "routing" =>
        /\ port[s] = 327 <=> path[s] = "/hub"
        /\ port[s] = 330 <=> path[s] = "/smp"
        /\ port[s] = None <=> path[s] \notin {"/hub", "/smp"}
        /\ pc[s] = (IF path[s] \in {"/hub", "/smp"} THEN "dialing" ELSE "returned")

C13_Witness ==
    \E s, t \in Sessions :
        /\ path[s] = "/HUB" /\ pc[s] = "returned" /\ port[s] = None
        /\ path[t] = "/hub" /\ pc[t] = "dialing" /\ port[t] = 327

\* --------------------------------------------------------------------- C14
\* C14: when building the secure-transport context has failed, the process
\* has stopped without serving: no connection is accepted, no session exists
\* and no backend connection was made.
C14_TlsFailureNeverServes ==
    ssl_context = "failed" =>
        /\ proc = "crashed"
        /\ \A s \in Sessions : pc[s] = "unaccepted" /\ cli[s] = "none"
        /\ \A c \in ConnIds : be[c] = "none"

C14_Witness == SSL_ENABLED /\ ssl_context = "failed" /\ proc = "crashed"

\* --------------------------------------------------------------------- C15
\* C15: the route table is in every reachable state what it was at start.
C15_RouteTableUnchanged == routes = port_mapping

C15_Witness ==
    \E s, t \in Sessions :
        /\ Unmapped(s) /\ pc[s] = "returned"
        /\ Mapped(t) /\ pc[t] = "returned" /\ fwdFrom[t] = "failed"

\* --------------------------------------------------------------------- C16
\* C16: what the relay has written to a backend connection is a prefix of
\* what the client of the session holding it has sent, and no longer than
\* what the relay took from that client; the same from backend to client; a
\* session without backend connection has written nothing, and a connection
\* no session holds has received nothing.
C16_WrittenIsPrefixOfReceived ==
    /\ \A s \in Sessions :
          IF HasBackend(s)
          THEN /\ IsPrefix(toBackend[target_ws[s]], clientSent[s])
               /\ Len(toBackend[target_ws[s]]) <= nreadC[s]
               /\ IsPrefix(toClient[s], backendSent[target_ws[s]])
               /\ Len(toClient[s]) <= nreadB[target_ws[s]]
          ELSE toClient[s] = <<>>
    /\ \A c \in ConnIds :
          (\A s \in Sessions : target_ws[s] # c) => toBackend[c] = <<>>

C16_Witness ==
    \E s \in Sessions :
        /\ HasBackend(s) /\ ~BackendOpen(s) /\ fwdTo[s] = "failed"
        /\ toBackend[target_ws[s]] = <<>> /\ Len(clientSent[s]) = 1
        /\ nreadC[s] = 1

\* --------------------------------------------------------------------- C17
\* C17: as long as a session has no backend connection, neither forwarding
\* coroutine exists, nothing was taken from the client and nothing written to
\* it, and gather is not pending.
C17_NoForwardingBeforeDial ==
    \A s \in Sessions : ~HasBackend(s) =>
        /\ fwdTo[s] = "none" /\ fwdFrom[s] = "none"
        /\ nreadC[s] = 0 /\ heldTo[s] = NoMsg
        /\ toClient[s] = <<>>
        /\ pc[s] # "relaying"

C17_Witness ==
    \E s \in Sessions :
        pc[s] = "dialing" /\ ~HasBackend(s) /\ Len(clientSent[s]) = 2

\* --------------------------------------------------------------------- C18
\* C18: every step in which the backend connection of a session stops being
\* open is a close by the backend peer, never a step of the relay.
C18_RelayNeverClosesBackend ==
    [][\A s \in Sessions :
          (BackendOpen(s) /\ ~BackendOpen(s)') =>
              \E ok \in BOOLEAN : BackendClose(s, ok)]_vars

C18_Witness ==
    \E s \in Sessions :
        /\ pc[s] = "returned" /\ BackendOpen(s)
        /\ Ended(fwdTo[s]) /\ Ended(fwdFrom[s])
====
